---- MODULE Spec2Model ----
(***************************************************************************)
(* Model of src/api_videos.py: the /info handler (get_video_info) and the  *)
(* /download handler (download_video) of the video downloader API.         *)
(*                                                                         *)
(* Strings are sequences of one-character strings, so that formatting      *)
(* (f'{height}p'), parsing (int(...)), str.replace and the character       *)
(* filter of the file-name sanitisation are computed, not assumed.         *)
(* A character outside ASCII is written by its code point ("U+00E9").      *)
(* An optional value is a sequence of length 0 (None / absent) or 1.       *)
(***************************************************************************)
EXTENDS Integers, Sequences, FiniteSets

VARIABLES req, dirs, files, cwdMode, inf

vars == <<req, dirs, files, cwdMode, inf>>

(***************************** bounds **************************************)

\* number of /download requests that may be in progress at the same time
NumReqs == 2

\* number of directory names tempfile.mkdtemp can draw from
NumDirs == 2

\* longest raw format list the extraction engine returns
MaxFormats == 3

\* longest video title
MaxTitleLen == 3

Reqs == 1..NumReqs

DirNames == 1..NumDirs

\* temp_dir is not bound (mkdtemp has not returned)
NoDir == 0

\* the directory part of a path relative to the working directory
Cwd == 0

(***************************** strings *************************************)

Digits == <<"0", "1", "2", "3", "4", "5", "6", "7", "8", "9">>

IsDigit(c) == \E i \in 1..10 : Digits[i] = c

DigitVal(c) == (CHOOSE i \in 1..10 : Digits[i] = c) - 1

\* str(n) for n >= 0
RECURSIVE IntToStr(_)
IntToStr(n) ==
    IF n < 10 THEN <<Digits[n + 1]>>
    ELSE IntToStr(n \div 10) \o <<Digits[(n % 10) + 1]>>

\* s.replace('p', '')
IsNotP(c) == c # "p"

ReplaceP(s) == SelectSeq(s, IsNotP)

\* whether int(s) returns (digits only; anything else raises ValueError)
ParsesAsInt(s) == s # <<>> /\ \A i \in 1..Len(s) : IsDigit(s[i])

RECURSIVE StrToInt(_)
StrToInt(s) ==
    IF s = <<>> THEN 0
    ELSE 10 * StrToInt(SubSeq(s, 1, Len(s) - 1)) + DigitVal(s[Len(s)])

\* f'{height}p'
ResolutionLabel(height) == IntToStr(height) \o <<"p">>

\* int(x['resolution'].replace('p', ''))
SortKey(fmt) == StrToInt(ReplaceP(fmt.resolution))

(***************************** engine data *********************************)

\* Raw formats as the extraction engine reports them.  height 0 stands for a
\* height that is None, missing or 0: all are falsy at `f.get('height')`.
\* filesize 0 stands for None.
RawFormats ==
    { [format_id |-> "18",  height |-> 360,  ext |-> "mp4",  filesize |-> 0],
      [format_id |-> "134", height |-> 360,  ext |-> "mp4",  filesize |-> 5],
      [format_id |-> "22",  height |-> 720,  ext |-> "mp4",  filesize |-> 9],
      [format_id |-> "137", height |-> 1080, ext |-> "mp4",  filesize |-> 0],
      [format_id |-> "248", height |-> 1080, ext |-> "webm", filesize |-> 7],
      [format_id |-> "sb0", height |-> 0,    ext |-> "mp4",  filesize |-> 0] }

FormatLists == UNION { [1..n -> RawFormats] : n \in 0..MaxFormats }

Range(s) == { s[i] : i \in 1..Len(s) }

(***************************** /info: catalog ******************************)

\* the test of line 77: a truthy height and the mp4 container
KeepFormat(f) == f.height # 0 /\ f.ext = "mp4"

\* the dictionary appended at lines 78-83
FormatEntry(f) ==
    [format_id  |-> f.format_id,
     resolution |-> ResolutionLabel(f.height),
     ext        |-> f.ext,
     filesize   |-> f.filesize]

\* lines 75-83: the formats kept, in the engine's order
RECURSIVE ExtractFormats(_)
ExtractFormats(raw) ==
    IF raw = <<>> THEN <<>>
    ELSE (IF KeepFormat(Head(raw)) THEN <<FormatEntry(Head(raw))>> ELSE <<>>)
         \o ExtractFormats(Tail(raw))

\* the test of line 89
IsNewResolution(fmt, seen_resolutions) == fmt.resolution \notin seen_resolutions

\* lines 86-91: one pass, keeping an entry when its resolution was not seen
RECURSIVE UniqueFrom(_, _, _)
UniqueFrom(formats, i, seen_resolutions) ==
    IF i > Len(formats) THEN <<>>
    ELSE IF IsNewResolution(formats[i], seen_resolutions)
         THEN <<formats[i]>>
              \o UniqueFrom(formats, i + 1, seen_resolutions \cup {formats[i].resolution})
         ELSE UniqueFrom(formats, i + 1, seen_resolutions)

UniqueFormats(formats) == UniqueFrom(formats, 1, {})

\* the order without reverse=True
SortsBeforeAscending(x, y) == SortKey(x) < SortKey(y)

\* whether x goes before y in list.sort(key=..., reverse=True)
SortsBefore(x, y) == SortKey(x) > SortKey(y)

\* insertion that keeps equal keys in their original order (the sort is stable)
RECURSIVE InsertSorted(_, _)
InsertSorted(sorted, x) ==
    IF sorted = <<>> THEN <<x>>
    ELSE IF SortsBefore(x, Head(sorted)) THEN <<x>> \o sorted
         ELSE <<Head(sorted)>> \o InsertSorted(Tail(sorted), x)

\* line 94
RECURSIVE SortFormats(_)
SortFormats(formats) ==
    IF formats = <<>> THEN <<>>
    ELSE InsertSorted(SortFormats(SubSeq(formats, 1, Len(formats) - 1)),
                      formats[Len(formats)])

\* lines 74-94: the `formats` of the VideoInfo that /info returns
Catalog(raw) == SortFormats(UniqueFormats(ExtractFormats(raw)))

(***************************** /download: file name ************************)

AsciiAlnum ==
    { "a", "b", "c", "d", "e", "f", "g", "h", "i", "j", "k", "l", "m",
      "n", "o", "p", "q", "r", "s", "t", "u", "v", "w", "x", "y", "z",
      "A", "B", "C", "D", "E", "F", "G", "H", "I", "J", "K", "L", "M",
      "N", "O", "P", "Q", "R", "S", "T", "U", "V", "W", "X", "Y", "Z",
      "0", "1", "2", "3", "4", "5", "6", "7", "8", "9" }

\* characters outside ASCII for which str.isalnum() is True
\* (e with acute accent, the CJK ideograph U+4E2D)
UnicodeAlnum == { "U+00E9", "U+4E2D" }

\* c.isalnum()
IsAlnum(c) == c \in AsciiAlnum \cup UnicodeAlnum

\* the filter of line 157 without '-' in its list
KeepCharNoDash(c) == IsAlnum(c) \/ c \in {"_", "."}

\* the filter of line 157: c.isalnum() or c in ['_', '.', '-']
KeepChar(c) == IsAlnum(c) \/ c \in {"_", ".", "-"}

\* ''.join(c for c in title if ...)
FilterTitle(title) == SelectSeq(title, KeepChar)

\* s.replace(' ', '_')
ReplaceSpace(s) == [i \in 1..Len(s) |-> IF s[i] = " " THEN "_" ELSE s[i]]

\* line 157: the filter runs first, .replace(' ', '_') on its result
SafeTitle(title) == ReplaceSpace(FilterTitle(title))

\* line 158: f"{safe_title}.mp4"
DownloadFilename(safe_title) == safe_title \o <<".", "m", "p", "4">>

(***************************** inputs **************************************)

TitleChars == { "a", "7", "-", " ", "?", "U+00E9" }

\* the title of the scenario: "Foo: Bar?! (Live)"
ScenarioTitle ==
    << "F", "o", "o", ":", " ", "B", "a", "r", "?", "!", " ", "(", "L", "i", "v", "e", ")" >>

Titles == UNION { [1..n -> TitleChars] : n \in 0..MaxTitleLen } \cup {ScenarioTitle}

DefaultTitle == << "a", " ", "7" >>

DefaultFormats ==
    << [format_id |-> "18", height |-> 360, ext |-> "mp4", filesize |-> 0],
       [format_id |-> "22", height |-> 720, ext |-> "mp4", filesize |-> 9] >>

\* a URL the engine cannot resolve
BadUrl == [ok |-> FALSE, title |-> <<>>, formats |-> <<>>]

\* What the engine knows of a URL.  title is optional: <<>> when the engine
\* reports no 'title' key.
Videos ==
    { [ok |-> TRUE, title |-> <<DefaultTitle>>, formats |-> fs] : fs \in FormatLists }
    \cup { [ok |-> TRUE, title |-> <<t>>, formats |-> DefaultFormats] : t \in Titles }
    \cup { [ok |-> TRUE, title |-> <<>>, formats |-> DefaultFormats] }

Urls == Videos \cup {BadUrl}

\* the `resolution` query parameter: "720p" (the default), "360p", "480p",
\* "1080p", "hd" and the empty string
Resolutions ==
    { << "7", "2", "0", "p" >>, << "3", "6", "0", "p" >>, << "4", "8", "0", "p" >>,
      << "1", "0", "8", "0", "p" >>, << "h", "d" >>, << >> }

\* the inputs of the requests that run concurrently
ConcurrentUrls ==
    { BadUrl, [ok |-> TRUE, title |-> <<DefaultTitle>>, formats |-> DefaultFormats] }

ConcurrentResolutions == { << "7", "2", "0", "p" >>, << "h", "d" >> }

(***************************** extraction engine ***************************)

\* ydl.extract_info raises: the URL cannot be resolved, or the video has no
\* formats at all
EngineFails(url) == ~url.ok \/ url.formats = <<>>

\* The format the engine resolves for the selector 'best': the greatest
\* resolution whatever the container, the later one among equals.
BestFormat(formats) ==
    formats[CHOOSE i \in 1..Len(formats) :
                \A j \in 1..Len(formats) :
                    \/ formats[j].height < formats[i].height
                    \/ formats[j].height = formats[i].height /\ j <= i]

\* the info dictionary of extract_info(url, download=False) under 'format': 'best'
ExtractInfo(url) ==
    LET f == BestFormat(url.formats)
    IN  [title |-> url.title, format_id |-> f.format_id, height |-> f.height, ext |-> f.ext]

\* ydl.prepare_filename(info) with no 'outtmpl' option: the default template,
\* '<title> [<id>].<ext>', relative to the working directory
PrepareFilename(info) ==
    [dir |-> Cwd, name |-> [title |-> info.title, ext |-> info.ext]]

\* info.get('title', 'video')
InfoTitle(info) ==
    IF info.title = <<>> THEN << "v", "i", "d", "e", "o" >> ELSE info.title[1]

(***************************** file system *********************************)

\* os.path.exists(path).  cwdMode says whether the working directory holds
\* files under the names the engine predicts (left there by something else:
\* the handler itself never writes one).
Exists(path) ==
    IF path.dir = Cwd THEN cwdMode = "leftovers"
    ELSE path.dir \in dirs /\ path.name \in files[path.dir]

\* os.path.join(temp_dir, 'video.mp4')
VideoMp4(temp_dir) ==
    [dir |-> temp_dir, name |-> [title |-> << << "v", "i", "d", "e", "o" >> >>, ext |-> "mp4"]]

(***************************** /download ***********************************)

IdleReq ==
    [pc |-> "idle", url |-> BadUrl, resolution |-> <<>>, temp_dir |-> NoDir,
     height |-> <<>>, format_str |-> <<>>, ydl_format |-> <<>>,
     info |-> <<>>, filename |-> <<>>, download_filename |-> <<>>,
     buffer |-> <<>>, response |-> <<>>, err |-> "", status |-> 0, rmtrees |-> 0]

\* lines 111-116: a request arrives with its query parameters
DownloadRequest(r, urls, resolutions) ==
    /\ req[r].pc = "idle"
    /\ \E url \in urls, resolution \in resolutions :
          req' = [req EXCEPT ![r] = [IdleReq EXCEPT !.pc = "mkdtemp", !.url = url,
                                                    !.resolution = resolution]]
    /\ UNCHANGED <<dirs, files, cwdMode, inf>>

\* a name mkdtemp may return when it does not insist on creating the directory
MkdtempNamesAny == DirNames

\* the names mkdtemp may return: it creates the directory itself and retries
\* on a name that exists
MkdtempNames == DirNames \ dirs

\* line 117, mkdtemp returns
Mkdtemp(r) ==
    /\ req[r].pc = "mkdtemp"
    /\ \E d \in MkdtempNames :
          /\ dirs' = dirs \cup {d}
          /\ files' = [files EXCEPT ![d] = {}]
          /\ req' = [req EXCEPT ![r].temp_dir = d, ![r].pc = "parse"]
    /\ UNCHANGED <<cwdMode, inf>>

\* line 117, mkdtemp raises (no usable name, no space): outside the inner try
MkdtempFail(r) ==
    /\ req[r].pc = "mkdtemp"
    /\ req' = [req EXCEPT ![r].err = "OSError", ![r].pc = "except"]
    /\ UNCHANGED <<dirs, files, cwdMode, inf>>

\* lines 120-135: int(resolution.replace('p', '')), format_str, ydl_opts
ParseResolution(r) ==
    /\ req[r].pc = "parse"
    /\ LET s == ReplaceP(req[r].resolution)
       IN  IF ParsesAsInt(s)
           THEN req' = [req EXCEPT ![r].height = <<StrToInt(s)>>,
                                   ![r].format_str = <<[max_height |-> StrToInt(s), ext |-> "mp4"]>>,
                                   ![r].ydl_format = <<"best">>,
                                   ![r].pc = "extract"]
           ELSE req' = [req EXCEPT ![r].err = "ValueError", ![r].pc = "finally"]
    /\ UNCHANGED <<dirs, files, cwdMode, inf>>

\* lines 138-140: extract_info(url, download=False) and prepare_filename
ExtractInfoOk(r) ==
    /\ req[r].pc = "extract"
    /\ ~EngineFails(req[r].url)
    /\ req' = [req EXCEPT ![r].info = <<ExtractInfo(req[r].url)>>,
                          ![r].filename = <<PrepareFilename(ExtractInfo(req[r].url))>>,
                          ![r].pc = "locate"]
    /\ UNCHANGED <<dirs, files, cwdMode, inf>>

\* line 139 raises: a URL the engine cannot resolve, or the network
ExtractInfoFail(r) ==
    /\ req[r].pc = "extract"
    /\ req' = [req EXCEPT ![r].err = "DownloadError", ![r].pc = "finally"]
    /\ UNCHANGED <<dirs, files, cwdMode, inf>>

\* lines 143-154
LocateArtifact(r) ==
    /\ req[r].pc = "locate"
    /\ LET temp_dir == req[r].temp_dir
       IN  IF Exists(req[r].filename[1])
           THEN req' = [req EXCEPT ![r].pc = "sanitize"]
           ELSE IF Exists(VideoMp4(temp_dir))
           THEN req' = [req EXCEPT ![r].filename = <<VideoMp4(temp_dir)>>,
                                   ![r].pc = "sanitize"]
           ELSE IF temp_dir \in dirs /\ files[temp_dir] # {}
           THEN \E f \in files[temp_dir] :
                   req' = [req EXCEPT ![r].filename = <<[dir |-> temp_dir, name |-> f]>>,
                                      ![r].pc = "sanitize"]
           ELSE req' = [req EXCEPT ![r].err = "FileNotFoundError", ![r].pc = "finally"]
    /\ UNCHANGED <<dirs, files, cwdMode, inf>>

\* lines 157-158
SanitizeTitle(r) ==
    /\ req[r].pc = "sanitize"
    /\ req' = [req EXCEPT
                 ![r].download_filename =
                     <<DownloadFilename(SafeTitle(InfoTitle(req[r].info[1])))>>,
                 ![r].pc = "read"]
    /\ UNCHANGED <<dirs, files, cwdMode, inf>>

\* the response body left to be read from the file when the response is sent
ReadArtifactLazily(r) ==
    /\ req[r].pc = "read"
    /\ req' = [req EXCEPT ![r].pc = "respond"]
    /\ UNCHANGED <<dirs, files, cwdMode, inf>>

\* lines 161-162: the whole file is read into the buffer
ReadArtifact(r) ==
    /\ req[r].pc = "read"
    /\ Exists(req[r].filename[1])
    /\ req' = [req EXCEPT ![r].buffer = <<[bytes_of |-> req[r].filename[1]]>>,
                          ![r].pc = "respond"]
    /\ UNCHANGED <<dirs, files, cwdMode, inf>>

\* lines 161-162 raise: the file cannot be opened or read
ReadArtifactFail(r) ==
    /\ req[r].pc = "read"
    /\ req' = [req EXCEPT ![r].err = "OSError", ![r].pc = "finally"]
    /\ UNCHANGED <<dirs, files, cwdMode, inf>>

\* lines 165-172: the StreamingResponse over the buffer
BuildResponse(r) ==
    /\ req[r].pc = "respond"
    /\ req' = [req EXCEPT
                 ![r].response =
                     <<[body |-> req[r].buffer,
                        media_type |-> "video/mp4",
                        filename |-> req[r].download_filename[1],
                        content_length |-> [size_of |-> req[r].filename[1]]]>>,
                 ![r].pc = "finally"]
    /\ UNCHANGED <<dirs, files, cwdMode, inf>>

\* the clean-up placed after the response instead of in a finally block
FinallyOnSuccessOnly(r) ==
    /\ req[r].pc = "finally"
    /\ IF req[r].err = ""
       THEN /\ dirs' = dirs \ {req[r].temp_dir}
            /\ files' = [files EXCEPT ![req[r].temp_dir] = {}]
            /\ req' = [req EXCEPT ![r].rmtrees = @ + 1, ![r].status = 200, ![r].pc = "done"]
       ELSE /\ req' = [req EXCEPT ![r].pc = "except"]
            /\ UNCHANGED <<dirs, files>>
    /\ UNCHANGED <<cwdMode, inf>>

\* lines 174-176: shutil.rmtree(temp_dir, ignore_errors=True), then the return
\* of the response or the propagation of the exception
Finally(r) ==
    /\ req[r].pc = "finally"
    /\ dirs' = dirs \ {req[r].temp_dir}
    /\ files' = [files EXCEPT ![req[r].temp_dir] = {}]
    /\ IF req[r].err = ""
       THEN req' = [req EXCEPT ![r].rmtrees = @ + 1, ![r].status = 200, ![r].pc = "done"]
       ELSE req' = [req EXCEPT ![r].rmtrees = @ + 1, ![r].pc = "except"]
    /\ UNCHANGED <<cwdMode, inf>>

\* a handler that answers 404 when no file is found
ExceptStatusNotFound(err) == IF err = "FileNotFoundError" THEN 404 ELSE 500

\* line 180: HTTPException(status_code=500) for every exception
ExceptStatus(err) == 500

\* lines 178-180
Except(r) ==
    /\ req[r].pc = "except"
    /\ req' = [req EXCEPT ![r].status = ExceptStatus(req[r].err), ![r].pc = "done"]
    /\ UNCHANGED <<dirs, files, cwdMode, inf>>

\* the response or the error has been sent: the worker takes the next request
Complete(r) ==
    /\ req[r].pc = "done"
    /\ req' = [req EXCEPT ![r] = IdleReq]
    /\ UNCHANGED <<dirs, files, cwdMode, inf>>

(***************************** /info ***************************************)

IdleInfo ==
    [pc |-> "idle", url |-> BadUrl, info |-> <<>>, video_info |-> <<>>, status |-> 0]

\* lines 54-57
InfoRequest ==
    /\ inf.pc = "idle"
    /\ \E url \in Urls : inf' = [IdleInfo EXCEPT !.pc = "extract", !.url = url]
    /\ UNCHANGED <<req, dirs, files, cwdMode>>

\* lines 71-72: extract_info(url, download=False) returns
InfoExtractOk ==
    /\ inf.pc = "extract"
    /\ ~EngineFails(inf.url)
    /\ inf' = [inf EXCEPT !.info = <<[title |-> inf.url.title, formats |-> inf.url.formats]>>,
                          !.pc = "build"]
    /\ UNCHANGED <<req, dirs, files, cwdMode>>

\* line 72 raises
InfoExtractFail ==
    /\ inf.pc = "extract"
    /\ inf' = [inf EXCEPT !.pc = "except"]
    /\ UNCHANGED <<req, dirs, files, cwdMode>>

\* lines 74-104: the catalog and the VideoInfo returned
InfoBuild ==
    /\ inf.pc = "build"
    /\ inf' = [inf EXCEPT
                 !.video_info = <<[title |-> inf.info[1].title,
                                   formats |-> Catalog(inf.info[1].formats)]>>,
                 !.status = 200,
                 !.pc = "done"]
    /\ UNCHANGED <<req, dirs, files, cwdMode>>

\* lines 106-108
InfoExcept ==
    /\ inf.pc = "except"
    /\ inf' = [inf EXCEPT !.status = 500, !.pc = "done"]
    /\ UNCHANGED <<req, dirs, files, cwdMode>>

InfoComplete ==
    /\ inf.pc = "done"
    /\ inf' = IdleInfo
    /\ UNCHANGED <<req, dirs, files, cwdMode>>

(***************************** specifications ******************************)

Init ==
    /\ req = [r \in Reqs |-> IdleReq]
    /\ dirs = {}
    /\ files = [d \in DirNames |-> {}]
    /\ cwdMode \in {"empty", "leftovers"}
    /\ inf = IdleInfo

\* a request of the concurrent specification
ConcurrentRequest(r) == DownloadRequest(r, ConcurrentUrls, ConcurrentResolutions)

\* /download requests interleaved at every step
Next ==
    \E r \in Reqs :
        \/ ConcurrentRequest(r)
        \/ Mkdtemp(r)
        \/ MkdtempFail(r)
        \/ ParseResolution(r)
        \/ ExtractInfoOk(r)
        \/ ExtractInfoFail(r)
        \/ LocateArtifact(r)
        \/ SanitizeTitle(r)
        \/ ReadArtifact(r)
        \/ ReadArtifactFail(r)
        \/ BuildResponse(r)
        \/ Finally(r)
        \/ Except(r)
        \/ Complete(r)

Spec == Init /\ [][Next]_vars

\* a request of the single-request specification: every URL, every resolution
SingleRequest == DownloadRequest(1, Urls, Resolutions)

\* one /download request at a time, over all the inputs
NextOne ==
    \/ SingleRequest
    \/ Mkdtemp(1)
    \/ MkdtempFail(1)
    \/ ParseResolution(1)
    \/ ExtractInfoOk(1)
    \/ ExtractInfoFail(1)
    \/ LocateArtifact(1)
    \/ SanitizeTitle(1)
    \/ ReadArtifact(1)
    \/ ReadArtifactFail(1)
    \/ BuildResponse(1)
    \/ Finally(1)
    \/ Except(1)
    \/ Complete(1)

SpecOne == Init /\ [][NextOne]_vars

\* /info requests, one at a time, over all the inputs
NextInfo ==
    \/ InfoRequest
    \/ InfoExtractOk
    \/ InfoExtractFail
    \/ InfoBuild
    \/ InfoExcept
    \/ InfoComplete

SpecInfo == Init /\ [][NextInfo]_vars

(***************************** properties **********************************)

\* request r has created its scratch directory and not yet run the clean-up
Holding(r) ==
    req[r].pc \in {"parse", "extract", "locate", "sanitize", "read", "respond", "finally"}

\* request r has left the try/finally block
Ended(r) == req[r].pc \in {"except", "done"}

C2_ReadPrecedesRelease ==
    \A r \in Reqs :
        (req[r].rmtrees >= 1 /\ req[r].err = "") =>
            /\ req[r].response # <<>>
            /\ req[r].response[1].body = <<[bytes_of |-> req[r].filename[1]]>>
            /\ req[r].response[1].content_length = [size_of |-> req[r].filename[1]]

\* a request answered 200 whose scratch directory is gone and whose body is read
C2_Witness ==
    \E r \in Reqs :
        /\ req[r].pc = "done" /\ req[r].status = 200 /\ req[r].rmtrees = 1
        /\ req[r].temp_dir \notin dirs
        /\ req[r].response # <<>> /\ req[r].response[1].body # <<>>

\* C3: two requests in progress never hold the same scratch directory, and
\* the directory of a request in progress exists: no other request's
\* clean-up has removed it.
C3_ScratchExclusive ==
    /\ \A r, q \in Reqs :
          (r # q /\ Holding(r) /\ Holding(q)) => req[r].temp_dir # req[q].temp_dir
    /\ \A r \in Reqs : Holding(r) => req[r].temp_dir \in dirs

\* one request has run its clean-up while another still holds its directory
C3_Witness ==
    \E r, q \in Reqs :
        /\ r # q
        /\ Holding(r) /\ req[r].temp_dir \in dirs
        /\ Ended(q) /\ req[q].rmtrees = 1 /\ req[q].temp_dir # req[r].temp_dir

C5_ExactMatchSelected ==
    \A r \in Reqs :
        req[r].info # <<>> =>
            \A k \in 1..Len(Catalog(req[r].url.formats)) :
                Catalog(req[r].url.formats)[k].resolution = req[r].resolution =>
                    ResolutionLabel(req[r].info[1].height) = req[r].resolution

\* the requested label is not a label of the catalog
LabelAbsent(r) ==
    \A k \in 1..Len(Catalog(req[r].url.formats)) :
        Catalog(req[r].url.formats)[k].resolution # req[r].resolution

\* C6: when the catalog is not empty and the requested label (not the empty
\* string) is not in it,
\* the selection does not fail and the stream resolved is the first entry of
\* the catalog, the one of greatest height.
C6_FallbackHighest ==
    \A r \in Reqs :
        (/\ req[r].temp_dir # NoDir
         /\ req[r].pc \notin {"idle", "mkdtemp", "parse"}
         /\ Catalog(req[r].url.formats) # <<>>
         /\ req[r].resolution # <<>>
         /\ LabelAbsent(r)) =>
            /\ req[r].err # "ValueError"
            /\ req[r].info # <<>> =>
                  req[r].info[1].format_id = Catalog(req[r].url.formats)[1].format_id

\* the height a resolution label stands for
HeightOfLabel(label) ==
    CHOOSE h \in { f.height : f \in RawFormats } : ResolutionLabel(h) = label

\* C7: the catalog /info returns holds only formats of known height and
\* container mp4, each label once and all of them, by strictly descending
\* height, and under each label the first raw format of known height and
\* container mp4 that carries it.
C7_CatalogInvariants ==
    (inf.pc = "done" /\ inf.status = 200) =>
        LET raw == inf.url.formats
            cat == inf.video_info[1].formats
            Kept(i) == raw[i].height # 0 /\ raw[i].ext = "mp4"
            Carries(i, label) == Kept(i) /\ ResolutionLabel(raw[i].height) = label
        IN  /\ \A k \in 1..Len(cat) :
                  /\ cat[k].ext = "mp4"
                  /\ \E i \in 1..Len(raw) :
                        /\ Carries(i, cat[k].resolution)
                        /\ \A j \in 1..(i - 1) : ~Carries(j, cat[k].resolution)
                        /\ cat[k].format_id = raw[i].format_id
                        /\ cat[k].filesize = raw[i].filesize
            /\ \A k \in 1..(Len(cat) - 1) :
                  HeightOfLabel(cat[k].resolution) > HeightOfLabel(cat[k + 1].resolution)
            /\ \A k, m \in 1..Len(cat) : k # m => cat[k].resolution # cat[m].resolution
            /\ \A i \in 1..Len(raw) :
                  Kept(i) => \E k \in 1..Len(cat) :
                                 cat[k].resolution = ResolutionLabel(raw[i].height)

\* a raw list with two mp4 formats of one height, the lower height first,
\* whose catalog has two entries
C7_Witness ==
    /\ inf.pc = "done" /\ inf.status = 200
    /\ Len(inf.video_info[1].formats) = 2
    /\ \E i, j \in 1..Len(inf.url.formats) :
          /\ i < j
          /\ inf.url.formats[i].ext = "mp4" /\ inf.url.formats[j].ext = "mp4"
          /\ inf.url.formats[i].height = 360 /\ inf.url.formats[j].height = 360
          /\ inf.url.formats[i].format_id # inf.url.formats[j].format_id
    /\ \E i \in 1..Len(inf.url.formats) : inf.url.formats[i].height = 1080

\* the title and the sanitised name of a request that has built its file name
TitleOf(r) == InfoTitle(req[r].info[1])

SafeOf(r) == SubSeq(req[r].download_filename[1], 1, Len(req[r].download_filename[1]) - 4)

AsciiSafe == AsciiAlnum \cup {"_", ".", "-"}

HasInnerSpace(title) ==
    \E i, j, k \in 1..Len(title) :
        i < j /\ j < k /\ KeepChar(title[i]) /\ title[j] = " " /\ KeepChar(title[k])

\* C9: whitespace of the title between kept characters gives an underscore
\* in the sanitised name; the title "Foo: Bar?! (Live)" gives the file name
\* "Foo_Bar_Live.mp4".
C9_WhitespaceBecomesUnderscore ==
    \A r \in Reqs :
        req[r].download_filename # <<>> =>
            /\ HasInnerSpace(TitleOf(r)) => "_" \in Range(SafeOf(r))
            /\ TitleOf(r) = ScenarioTitle =>
                  req[r].download_filename[1] =
                      << "F", "o", "o", "_", "B", "a", "r", "_", "L", "i", "v", "e",
                         ".", "m", "p", "4" >>

\* C10: after a successful extraction the scratch directory of the request
\* holds exactly one file, and the file whose bytes and size go into the
\* response is inside that directory.
C10_ArtifactInsideScratch ==
    \A r \in Reqs :
        /\ (req[r].info # <<>> /\ Holding(r)) =>
              Cardinality(files[req[r].temp_dir]) = 1
        /\ req[r].response # <<>> =>
              /\ req[r].response[1].body # <<>>
              /\ req[r].response[1].body[1].bytes_of.dir = req[r].temp_dir
              /\ req[r].response[1].content_length.size_of.dir = req[r].temp_dir

====
